---- MODULE Spec2Model ----
(***************************************************************************)
(* Model of chatbot/components/base/_rnn.py: the dropout-wrapped cell      *)
(* (Cell), the cell factory (RNN), the attention wrapper                   *)
(* (MyAttentionWrapper) and the rewritten BasicRNNCell.                    *)
(*                                                                         *)
(* Tensors.  A [batch, n] tensor is modelled by one batch row, a sequence  *)
(* of n integers: every operation of the file acts on the rows of a batch  *)
(* independently.  Python objects are records with a cls field, so that    *)
(* values of different classes can be compared.                            *)
(*                                                                         *)
(* Numeric kernels of the execution engine (tanh, sigmoid, softmax, dense  *)
(* layers) are quantised to integers: they keep the data flow and the      *)
(* shapes of the real kernels, and are deterministic functions of their    *)
(* arguments and of the (fixed) learned parameters.                        *)
(***************************************************************************)
EXTENDS Integers, Sequences, FiniteSets, TLC

\* ------------------------------------------------------------ bounds
\* largest state_size (number of units) a factory is configured with
MaxStateSize == 2
\* largest num_layers a factory is configured with
MaxLayers == 2
\* largest attention_size passed to get_cell
MaxAttnSize == 2
\* last dimension of the attention memory (attention_mechanism.values)
MemDim == 2
\* number of time steps a caller loop chains before it stops
MaxSteps == 2
\* embed_size (width of a step's input) the factories are configured with
EmbedSize == 1

\* ------------------------------------------------------------ values
\* Python's None, where an object is expected
NoneObj == [cls |-> "None"]
\* Python's None, where an int is expected (attention_layer_size=None), and
\* the unknown dimension of tf.TensorShape([None, n])
NoneInt == 0 - 1

Tensor(v) == [cls |-> "Tensor", v |-> v]
Zeros(n) == Tensor([i \in 1..n |-> 0])
TensorShape(dims) == [cls |-> "TensorShape", dims |-> dims]
\* tf.TensorShape(None): a shape of unknown rank
UnknownShape == [cls |-> "TensorShape", dims |-> NoneObj]
LSTMStateTuple(c, h) == [cls |-> "LSTMStateTuple", c |-> c, h |-> h]
PyTuple(items) == [cls |-> "tuple", items |-> items]
Raise(type) == [cls |-> "Error", type |-> type]
IsError(x) == x.cls = "Error"

\* Python evaluates an expression once and names its value: Bind(e, F) is
\* F applied to the value of e.
Bind(e, F(_)) == CHOOSE r \in {F(v) : v \in {e}} : TRUE

RECURSIVE SumSeq(_)
SumSeq(s) == IF s = <<>> THEN 0 ELSE Head(s) + SumSeq(Tail(s))

\* tf.concat([a, b], -1) on one batch row
Concat(a, b) == Tensor(a.v \o b.v)

\* tf.tanh, quantised to {-1, 0, 1}
Tanh(x) == IF x > 0 THEN 1 ELSE IF x < 0 THEN 0 - 1 ELSE 0
\* tf.sigmoid, quantised to {0, 1}
Sigmoid(x) == IF x > 0 THEN 1 ELSE 0

\* The learned parameters: a fixed kernel and bias per layer (seed).
Kernel(seed, i, j) == ((seed + i + 2 * j) % 3) - 1
Bias(seed, j) == (seed + j) % 2

\* A dense (affine) layer of n outputs over one batch row x.
Dense(seed, x, n, use_bias) ==
    Bind(x.v, LAMBDA xv :
        Tensor([j \in 1..n |->
            SumSeq([i \in 1..Len(xv) |-> xv[i] * Kernel(seed, i, j)])
            + (IF use_bias THEN Bias(seed, j) ELSE 0)]))

RECURSIVE ConcatAll(_)
ConcatAll(args) == IF args = <<>> THEN <<>> ELSE Head(args).v \o ConcatAll(Tail(args))

\* bot_ops.linear_map(args, output_size, bias): concatenate the args along
\* the feature axis and apply a learned affine map to output_size features;
\* ConfigurationError when args is empty or output_size <= 0.
linear_map(args, output_size, bias) ==
    IF Len(args) = 0 \/ output_size <= 0
    THEN Raise("ConfigurationError")
    ELSE Dense(0, Tensor(ConcatAll(args)), output_size, bias)

\* ------------------------------------------------ tf.contrib.rnn cells
\* The cell classes getattr(tf.contrib.rnn, base_cell) finds.
TFCellNames == {"BasicRNNCell", "GRUCell", "BasicLSTMCell"}

\* getattr(tf.contrib.rnn, base_cell)(num_units=state_size)
single_cell(base_cell, state_size) ==
    IF base_cell \in TFCellNames
    THEN [cls |-> base_cell, num_units |-> state_size]
    ELSE Raise("AttributeError")

\* MultiRNNCell(cells); an empty list of cells is a ValueError
MultiRNNCell(cells) ==
    IF Len(cells) = 0 THEN Raise("ValueError")
    ELSE [cls |-> "MultiRNNCell", cells |-> cells]

\* cell.zero_state(batch_size, dtype) of a tf.contrib.rnn cell
TFCell_zero_state(c) ==
    LET one(k) == IF k.cls = "BasicLSTMCell"
                  THEN LSTMStateTuple(Zeros(k.num_units), Zeros(k.num_units))
                  ELSE Zeros(k.num_units)
    IN  IF c.cls = "MultiRNNCell"
        THEN PyTuple([i \in 1..Len(c.cells) |-> one(c.cells[i])])
        ELSE one(c)

\* cell.output_size of a tf.contrib.rnn cell
TFCell_output_size(c) ==
    IF c.cls = "MultiRNNCell" THEN c.cells[Len(c.cells)].num_units ELSE c.num_units

Slice(t, from, n) == Tensor([i \in 1..n |-> t.v[from + i]])

\* One step of a single tf.contrib.rnn cell; seed names its variables.
BasicRNNCell_tf(n, seed, inputs, state) ==
    Bind(Dense(seed, Concat(inputs, state), n, TRUE), LAMBDA lin :
    Bind(Tensor([i \in 1..n |-> Tanh(lin.v[i])]), LAMBDA o :
        [output |-> o, new_state |-> o]))

GRUCell_tf(n, seed, inputs, state) ==
    Bind(Dense(seed + 1, Concat(inputs, state), 2 * n, TRUE), LAMBDA gates :
    Bind(Tensor([i \in 1..n |-> Sigmoid(gates.v[i]) * state.v[i]]), LAMBDA rh :
    Bind(Dense(seed + 2, Concat(inputs, rh), n, TRUE), LAMBDA cand :
    Bind(Tensor([i \in 1..n |->
            Sigmoid(gates.v[n + i]) * state.v[i]
            + (1 - Sigmoid(gates.v[n + i])) * Tanh(cand.v[i])]), LAMBDA new_h :
        [output |-> new_h, new_state |-> new_h]))))

BasicLSTMCell_tf(n, seed, inputs, state) ==
    Bind(Dense(seed, Concat(inputs, state.h), 4 * n, TRUE), LAMBDA cat :
    Bind(Tensor([k \in 1..n |->
            state.c.v[k] * Sigmoid(Slice(cat, 2 * n, n).v[k] + 1)
            + Sigmoid(Slice(cat, 0, n).v[k]) * Tanh(Slice(cat, n, n).v[k])]),
         LAMBDA new_c :
    Bind(Tensor([k \in 1..n |->
            Tanh(new_c.v[k]) * Sigmoid(Slice(cat, 3 * n, n).v[k])]), LAMBDA new_h :
        [output |-> new_h, new_state |-> LSTMStateTuple(new_c, new_h)])))

SingleCell_call(c, seed, inputs, state) ==
    Bind(<<inputs, state>>, LAMBDA a :
        CASE c.cls = "BasicRNNCell" -> BasicRNNCell_tf(c.num_units, seed, a[1], a[2])
          [] c.cls = "GRUCell" -> GRUCell_tf(c.num_units, seed, a[1], a[2])
          [] c.cls = "BasicLSTMCell" -> BasicLSTMCell_tf(c.num_units, seed, a[1], a[2]))

\* MultiRNNCell.call: layer i's output is layer i+1's input; the new state
\* is the tuple of the layers' new states.
RECURSIVE MultiRNNCell_call(_, _, _, _, _)
MultiRNNCell_call(cells, i, cur_inp, state, new_states) ==
    IF i > Len(cells)
    THEN [output |-> cur_inp, new_state |-> PyTuple(new_states)]
    ELSE Bind(SingleCell_call(cells[i], 10 * i, cur_inp, state.items[i]), LAMBDA r :
             MultiRNNCell_call(cells, i + 1, r.output, state,
                               Append(new_states, r.new_state)))

\* self._cell(inputs, state, scope) for the cell a Cell wraps
TFCell_call(c, inputs, state) ==
    IF c.cls = "MultiRNNCell"
    THEN MultiRNNCell_call(c.cells, 1, inputs, state, <<>>)
    ELSE SingleCell_call(c, 0, inputs, state)

\* tf.layers.dropout(x, rate, training): the identity unless training; in
\* training, tf.nn.dropout with keep_prob = 1 - rate, which returns x for
\* keep_prob = 1, rejects keep_prob = 0, and otherwise zeroes the masked
\* elements and scales the others by 1 / keep_prob.  rate is in tenths.
Dropout(x, rate, training, mask) ==
    IF ~training THEN x
    ELSE IF rate = 0 THEN x
    ELSE IF rate >= 10 THEN Raise("ValueError")
    ELSE Bind(x.v, LAMBDA xv :
             Tensor([i \in 1..Len(xv) |-> (xv[i] * mask[i] * 10) \div (10 - rate)]))

\* --------------------------------------------------------------- Cell
\* Cell.__init__
Cell_init(state_size, num_layers, dropout_prob, base_cell) ==
    LET one == single_cell(base_cell, state_size)
        c   == IF num_layers = 1 THEN one
               ELSE IF num_layers > 1 /\ IsError(one) THEN one
               ELSE MultiRNNCell([i \in 1..num_layers |-> one])
    IN  IF IsError(c) THEN c
        ELSE [cls |-> "Cell", _state_size |-> state_size,
              _num_layers |-> num_layers, _dropout_prob |-> dropout_prob,
              _base_cell |-> base_cell, _cell |-> c]

\* Cell.output_size
Cell_output_size(self) == TFCell_output_size(self._cell)

\* RNNCell.zero_state over Cell.state_size, which is self._cell.state_size
Cell_zero_state(self) == TFCell_zero_state(self._cell)

\* "LSTM" in self._base_cell
HasLSTM(name) == name \in {"BasicLSTMCell", "LSTMCell"}

\* Cell.shape without the LSTM case
Cell_shape_nolstm(self) ==
    IF self._num_layers = 1 THEN TensorShape(<<NoneInt, self._state_size>>)
    ELSE PyTuple([i \in 1..self._num_layers |->
                    TensorShape(<<NoneInt, self._state_size>>)])

\* Cell.shape
Cell_shape(self) ==
    LET cell_shape ==
          IF HasLSTM(self._base_cell)
          THEN LSTMStateTuple(TensorShape(<<NoneInt, self._state_size>>),
                              TensorShape(<<NoneInt, self._state_size>>))
          ELSE TensorShape(<<NoneInt, self._state_size>>)
    IN  IF self._num_layers = 1 THEN cell_shape
        ELSE PyTuple([i \in 1..self._num_layers |-> cell_shape])

\* Cell.__call__ with the dropout op in training mode
Cell_call_training(self, inputs, state, mask) ==
    Bind(TFCell_call(self._cell, inputs, state), LAMBDA r :
    Bind(Dropout(r.output, self._dropout_prob, TRUE, mask), LAMBDA output :
        [output |-> output, new_state |-> r.new_state]))

\* Cell.__call__; mask is the engine's random draw for the dropout op, which
\* tf.layers.dropout reads only when its training argument is set, and the
\* call leaves it at its default, False.
Cell_call(self, inputs, state, mask) ==
    Bind(TFCell_call(self._cell, inputs, state), LAMBDA r :
    Bind(Dropout(r.output, self._dropout_prob, FALSE, mask), LAMBDA output :
        [output |-> output, new_state |-> r.new_state]))

\* ------------------------------------------------ attention mechanism
\* number of memory time steps
MemLen == 2

\* An AttentionMechanism over a fixed memory: values is [memory_time, depth].
AttentionMechanism(depth) ==
    [cls |-> "AttentionMechanism",
     values |-> [t \in 1..MemLen |-> [d \in 1..depth |-> (t * d) % 3]]]

\* attention_mechanism.values.get_shape()[-1].value
ValuesDepth(mech) == Len(mech.values[1])

\* score = self._attention_mechanism(att_query): one score per memory step
\* (additive scoring: the query is projected to the memory depth).
Score(mech, query) ==
    Bind(Dense(5, query, ValuesDepth(mech), FALSE), LAMBDA pq :
        [t \in 1..Len(mech.values) |->
            SumSeq([d \in 1..ValuesDepth(mech) |->
                      Tanh(mech.values[t][d] + pq.v[d])])])

RECURSIVE Pow2(_)
Pow2(k) == IF k <= 0 THEN 1 ELSE 2 * Pow2(k - 1)

RECURSIVE MinSeq(_)
MinSeq(s) == IF Len(s) = 1 THEN s[1]
             ELSE LET m == MinSeq(Tail(s)) IN IF s[1] < m THEN s[1] ELSE m

\* tf.nn.softmax(score), in fixed point: the weights' numerators (base 2);
\* their sum is the common denominator.
Softmax(score) ==
    Bind(score, LAMBDA sc :
    Bind(MinSeq(sc), LAMBDA m : [t \in 1..Len(sc) |-> Pow2(sc[t] - m)]))

\* tf.squeeze(tf.matmul(expand_dims(alignments, 1), values), [1]): the
\* alignment-weighted sum of the memory values, of the memory's depth.
Context(alignments, values) ==
    Bind(alignments, LAMBDA al :
        Tensor([d \in 1..Len(values[1]) |->
            SumSeq([t \in 1..Len(values) |-> al[t] * values[t][d]])
            \div SumSeq(al)]))

\* ------------------------------------------------- MyAttentionWrapper
AttentionWrapperState(cell_state, time, attention, alignment_history) ==
    [cls |-> "AttentionWrapperState", cell_state |-> cell_state, time |-> time,
     attention |-> attention, alignment_history |-> alignment_history]

\* MyAttentionWrapper.__init__ taking the attention size from the memory even
\* when an attention layer size is given
MyAttentionWrapper_init_memsize(cell, attention_mechanism, attention_layer_size, output_attention) ==
    [cls |-> "MyAttentionWrapper",
     _base_cell |-> cell._base_cell,
     _num_layers |-> cell._num_layers,
     _state_size |-> cell._state_size,
     _attention_layer |->
        IF attention_layer_size # NoneInt
        THEN [cls |-> "Dense", units |-> attention_layer_size, use_bias |-> FALSE]
        ELSE NoneObj,
     _attention_size |-> ValuesDepth(attention_mechanism),
     _cell |-> cell,
     _attention_mechanism |-> attention_mechanism,
     _output_attention |-> output_attention,
     _alignment_history |-> FALSE,
     _initial_cell_state |-> NoneObj]

\* MyAttentionWrapper.__init__
MyAttentionWrapper_init(cell, attention_mechanism, attention_layer_size, output_attention) ==
    [cls |-> "MyAttentionWrapper",
     _base_cell |-> cell._base_cell,
     _num_layers |-> cell._num_layers,
     _state_size |-> cell._state_size,
     _attention_layer |->
        IF attention_layer_size # NoneInt
        THEN [cls |-> "Dense", units |-> attention_layer_size, use_bias |-> FALSE]
        ELSE NoneObj,
     _attention_size |->
        IF attention_layer_size # NoneInt THEN attention_layer_size
        ELSE ValuesDepth(attention_mechanism),
     _cell |-> cell,
     _attention_mechanism |-> attention_mechanism,
     _output_attention |-> output_attention,
     _alignment_history |-> FALSE,
     _initial_cell_state |-> NoneObj]

\* MyAttentionWrapper.output_size
MyAttentionWrapper_output_size(self) ==
    IF self._output_attention THEN self._attention_size
    ELSE Cell_output_size(self._cell)

\* MyAttentionWrapper.zero_state
MyAttentionWrapper_zero_state(self) ==
    AttentionWrapperState(Cell_zero_state(self._cell), 0,
                          Zeros(self._attention_size), PyTuple(<<>>))

\* MyAttentionWrapper.initialized_state
MyAttentionWrapper_initialized_state(self, state) ==
    AttentionWrapperState(state, 0, Zeros(self._attention_size), PyTuple(<<>>))

\* MyAttentionWrapper.call with one slip, named by bug: "time" does not
\* advance the time, "flag" reads output_attention the wrong way round,
\* "self" keeps the last output mode in the object and alternates it.
Faulty_call(self, inputs, state, mask, bug) ==
    Bind(Concat(inputs, state.attention), LAMBDA cell_inputs :
    Bind(Cell_call(self._cell, cell_inputs, state.cell_state, mask), LAMBDA r :
    Bind(Dense(6, r.output, self._attention_size, TRUE), LAMBDA att_query :
    Bind(Score(self._attention_mechanism, att_query), LAMBDA score :
    Bind(Softmax(score), LAMBDA alignments :
    Bind(Context(alignments, self._attention_mechanism.values), LAMBDA context :
    Bind(IF self._attention_layer # NoneObj
         THEN Dense(7, Concat(r.output, context),
                    self._attention_layer.units, self._attention_layer.use_bias)
         ELSE context, LAMBDA attention :
    Bind(AttentionWrapperState(r.new_state,
                               IF bug = "time" THEN state.time ELSE state.time + 1,
                               attention, PyTuple(<<>>)), LAMBDA next_state :
        [output |-> IF self._output_attention = (bug # "flag")
                    THEN attention ELSE r.output,
         next_state |-> next_state,
         self |-> IF bug = "self"
                  THEN [self EXCEPT !._output_attention = ~self._output_attention]
                  ELSE self]))))))))
MyAttentionWrapper_call_time(self, inputs, state, mask) ==
    Faulty_call(self, inputs, state, mask, "time")
MyAttentionWrapper_call_flag(self, inputs, state, mask) ==
    Faulty_call(self, inputs, state, mask, "flag")
MyAttentionWrapper_call_self(self, inputs, state, mask) ==
    Faulty_call(self, inputs, state, mask, "self")

\* MyAttentionWrapper.call; the result also carries the cell object as the
\* call leaves it (the method assigns no attribute of self).
MyAttentionWrapper_call(self, inputs, state, mask) ==
    Bind(Concat(inputs, state.attention), LAMBDA cell_inputs :
    Bind(Cell_call(self._cell, cell_inputs, state.cell_state, mask), LAMBDA r :
    Bind(Dense(6, r.output, self._attention_size, TRUE), LAMBDA att_query :
    Bind(Score(self._attention_mechanism, att_query), LAMBDA score :
    Bind(Softmax(score), LAMBDA alignments :
    Bind(Context(alignments, self._attention_mechanism.values), LAMBDA context :
    Bind(IF self._attention_layer # NoneObj
         THEN Dense(7, Concat(r.output, context),
                    self._attention_layer.units, self._attention_layer.use_bias)
         ELSE context, LAMBDA attention :
    Bind(AttentionWrapperState(r.new_state, state.time + 1, attention,
                               PyTuple(<<>>)), LAMBDA next_state :
        [output |-> IF self._output_attention THEN attention ELSE r.output,
         next_state |-> next_state,
         self |-> self]))))))))

\* MyAttentionWrapper.shape
MyAttentionWrapper_shape(self) ==
    IF self._num_layers = 1
    THEN AttentionWrapperState(
             TensorShape(<<NoneInt, self._state_size>>),
             UnknownShape,
             TensorShape(<<NoneInt, self._attention_size>>),
             PyTuple(<<>>))
    ELSE AttentionWrapperState(
             PyTuple([i \in 1..self._num_layers |->
                        TensorShape(<<NoneInt, self._state_size>>)]),
             UnknownShape,
             TensorShape(<<NoneInt, self._attention_size>>),
             PyTuple(<<>>))

\* ---------------------------------------------------------------- RNN
\* RNN.__init__
RNN_init(state_size, embed_size, dropout_prob, num_layers, base_cell) ==
    [cls |-> "RNN", state_size |-> state_size, embed_size |-> embed_size,
     num_layers |-> num_layers, dropout_prob |-> dropout_prob,
     base_cell |-> base_cell, _wrapper |-> NoneObj]

\* kwargs.get(key, default)
KwGet(kwargs, key, default) == IF key \in DOMAIN kwargs THEN kwargs[key] ELSE default

\* RNN.get_cell with output_attention defaulting to True
RNN_get_cell_default(self, kwargs) ==
    LET cell == Cell_init(self.state_size, self.num_layers, self.dropout_prob,
                          self.base_cell)
    IN  IF IsError(cell) THEN cell
        ELSE IF KwGet(kwargs, "attn", NoneObj) = NoneObj THEN cell
        ELSE IF "attention_size" \notin DOMAIN kwargs THEN Raise("KeyError")
        ELSE MyAttentionWrapper_init(cell, kwargs["attn"],
                                     kwargs["attention_size"],
                                     KwGet(kwargs, "output_attention", TRUE))

\* RNN.get_cell(name, **kwargs)
RNN_get_cell(self, kwargs) ==
    LET cell == Cell_init(self.state_size, self.num_layers, self.dropout_prob,
                          self.base_cell)
    IN  IF IsError(cell) THEN cell
        ELSE IF KwGet(kwargs, "attn", NoneObj) = NoneObj THEN cell
        ELSE IF "attention_size" \notin DOMAIN kwargs THEN Raise("KeyError")
        ELSE MyAttentionWrapper_init(cell, kwargs["attn"],
                                     kwargs["attention_size"],
                                     KwGet(kwargs, "output_attention", FALSE))

\* ------------------------------------------------------- BasicRNNCell
\* BasicRNNCell.__init__
BasicRNNCell_init(num_units) ==
    [cls |-> "_rnn.BasicRNNCell", _num_units |-> num_units, _reuse |-> NoneObj]

\* RNNCell.zero_state over BasicRNNCell.state_size
BasicRNNCell_zero_state(self) == Zeros(self._num_units)

\* BasicRNNCell.__call__ returning the state it was given as the new state
BasicRNNCell_call_oldstate(self, inputs, state) ==
    Bind(linear_map(<<inputs, state>>, self._num_units, TRUE), LAMBDA lin :
        IF IsError(lin) THEN lin
        ELSE Bind(Tensor([i \in 1..Len(lin.v) |-> Tanh(lin.v[i])]), LAMBDA output :
                 [cls |-> "result", output |-> output, new_state |-> state]))

\* BasicRNNCell.__call__
BasicRNNCell_call(self, inputs, state) ==
    Bind(linear_map(<<inputs, state>>, self._num_units, TRUE), LAMBDA lin :
        IF IsError(lin) THEN lin
        ELSE Bind(Tensor([i \in 1..Len(lin.v) |-> Tanh(lin.v[i])]), LAMBDA output :
                 [cls |-> "result", output |-> output, new_state |-> output]))

\* ------------------------------------------------------ the program
VARIABLES
    rnn,      \* the RNN factory object
    cell,     \* the cell object the caller holds (NoneObj before any is built)
    kwargs,   \* the keyword arguments of the get_cell call that built cell
    state,    \* the state the caller loop threads (NoneObj before a sequence)
    last,     \* the last step call: its arguments and its result
    log,      \* the step calls made on cell in this sequence
    nsteps    \* number of step calls chained since the initial state

vars == <<rnn, cell, kwargs, state, last, log, nsteps>>

\* dropout_prob, in tenths
DropoutProbs == {0, 5, 10}
\* base_cell names a caller may configure
BaseCells == TFCellNames \cup {"NoSuchCell"}

NoKwargs == [k \in {} |-> NoneObj]
Opt(key, o) == IF o = <<>> THEN NoKwargs ELSE key :> o[1]
\* The keyword arguments of a get_cell call; each may be left out.
KwargsSet ==
    {Opt("attn", a) @@ Opt("output_attention", o) @@ Opt("attention_size", z) :
        a \in {<<AttentionMechanism(MemDim)>>},
        o \in {<<>>, <<TRUE>>},
        z \in {<<>>, <<NoneInt>>} \cup {<<n>> : n \in 1..MaxAttnSize}}
    \cup {NoKwargs, Opt("attn", <<NoneObj>>),
          Opt("attn", <<NoneObj>>) @@ Opt("output_attention", <<FALSE>>)
              @@ Opt("attention_size", <<1>>),
          Opt("attn", <<AttentionMechanism(MemDim)>>)
              @@ Opt("output_attention", <<FALSE>>) @@ Opt("attention_size", <<1>>)}

\* The step inputs of the caller loop: [batch, embed_size] tensors.
Inputs(n) == {Tensor([i \in 1..n |-> b]) : b \in {0, 1}}
\* The draws of the dropout op's random mask (one draw: keep the odd
\* elements, drop the even ones).
Masks(n) == {[i \in 1..n |-> i % 2]}

\* A cell state shaped like the zero state z, every element val.
FillState(z, val) ==
    LET t(x) == Tensor([i \in 1..Len(x.v) |-> val])
        one(x) == IF x.cls = "LSTMStateTuple" THEN LSTMStateTuple(t(x.c), t(x.h))
                  ELSE t(x)
    IN  IF z.cls = "tuple" THEN PyTuple([i \in 1..Len(z.items) |-> one(z.items[i])])
        ELSE one(z)

Call(inputs, st, result) ==
    [cls |-> "call", inputs |-> inputs, state |-> st, result |-> result]

Init ==
    /\ rnn \in {RNN_init(s, e, d, n, b) :
                  s \in 0..MaxStateSize, e \in {EmbedSize}, d \in DropoutProbs,
                  n \in 1..MaxLayers, b \in BaseCells}
    /\ cell = NoneObj
    /\ kwargs = NoKwargs
    /\ state = NoneObj
    /\ last = NoneObj
    /\ log = {}
    /\ nsteps = 0

\* cell = rnn.get_cell(name, **kw)
GetCell ==
    /\ state = NoneObj
    /\ \E kw \in KwargsSet :
         /\ cell' = RNN_get_cell(rnn, kw)
         /\ kwargs' = kw
    /\ UNCHANGED <<rnn, state, last, log, nsteps>>

\* cell = BasicRNNCell(num_units)
NewBasicRNNCell ==
    /\ state = NoneObj
    /\ cell' = BasicRNNCell_init(rnn.state_size)
    /\ kwargs' = NoKwargs
    /\ UNCHANGED <<rnn, state, last, log, nsteps>>

\* state = cell.zero_state(batch_size): a new sequence starts
ZeroState ==
    /\ cell.cls \in {"Cell", "MyAttentionWrapper", "_rnn.BasicRNNCell"}
    /\ state' = CASE cell.cls = "Cell" -> Cell_zero_state(cell)
                  [] cell.cls = "MyAttentionWrapper" -> MyAttentionWrapper_zero_state(cell)
                  [] cell.cls = "_rnn.BasicRNNCell" -> BasicRNNCell_zero_state(cell)
    /\ last' = NoneObj
    /\ log' = {}
    /\ nsteps' = 0
    /\ UNCHANGED <<rnn, cell, kwargs>>

\* state = cell.initialized_state(cell_state, batch_size): a new sequence
\* starts from a cell state the caller supplies
InitializedState ==
    /\ cell.cls = "MyAttentionWrapper"
    /\ \E val \in {1} :
         state' = MyAttentionWrapper_initialized_state(
                      cell, FillState(Cell_zero_state(cell._cell), val))
    /\ last' = NoneObj
    /\ log' = {}
    /\ nsteps' = 0
    /\ UNCHANGED <<rnn, cell, kwargs>>

\* output, state = cell(inputs, state), cell a Cell
CellStep ==
    /\ cell.cls = "Cell"
    /\ state # NoneObj
    /\ nsteps < MaxSteps
    /\ \E inputs \in Inputs(rnn.embed_size), mask \in Masks(Cell_output_size(cell)) :
         LET r == Cell_call(cell, inputs, state, mask) IN
         /\ state' = r.new_state
         /\ last' = Call(inputs, state, r)
    /\ nsteps' = nsteps + 1
    /\ UNCHANGED <<rnn, cell, kwargs, log>>

\* output, state = cell(inputs, state), cell a MyAttentionWrapper
AttnStep ==
    /\ cell.cls = "MyAttentionWrapper"
    /\ state # NoneObj
    /\ nsteps < MaxSteps
    /\ \E inputs \in Inputs(rnn.embed_size),
          mask \in Masks(Cell_output_size(cell._cell)) :
         LET r == MyAttentionWrapper_call(cell, inputs, state, mask) IN
         /\ cell' = r.self
         /\ state' = r.next_state
         /\ last' = Call(inputs, state, r)
         /\ log' = log \cup {Call(inputs, state, r)}
    /\ nsteps' = nsteps + 1
    /\ UNCHANGED <<rnn, kwargs>>

\* cell(inputs, initial_state) again, for the arguments of the first call of
\* this sequence; the caller keeps the state it threads
AttnReplay ==
    /\ cell.cls = "MyAttentionWrapper"
    /\ \E e \in {c \in log : c.state.time = 0}, mask \in Masks(Cell_output_size(cell._cell)) :
         LET r == MyAttentionWrapper_call(cell, e.inputs, e.state, mask) IN
         /\ cell' = r.self
         /\ last' = Call(e.inputs, e.state, r)
         /\ log' = log \cup {Call(e.inputs, e.state, r)}
    /\ UNCHANGED <<rnn, kwargs, state, nsteps>>

\* output, state = cell(inputs, state), cell a BasicRNNCell; an exception
\* leaves the caller's state as it was
BasicStep ==
    /\ cell.cls = "_rnn.BasicRNNCell"
    /\ state # NoneObj
    /\ nsteps < MaxSteps
    /\ \E inputs \in Inputs(rnn.embed_size) :
         LET r == BasicRNNCell_call(cell, inputs, state) IN
         /\ last' = Call(inputs, state, r)
         /\ state' = IF IsError(r) THEN state ELSE r.new_state
         /\ nsteps' = IF IsError(r) THEN nsteps ELSE nsteps + 1
    /\ UNCHANGED <<rnn, cell, kwargs, log>>

Next ==
    \/ GetCell
    \/ NewBasicRNNCell
    \/ ZeroState
    \/ InitializedState
    \/ CellStep
    \/ AttnStep
    \/ AttnReplay
    \/ BasicStep

Spec == Init /\ [][Next]_vars

\* ------------------------------------------------------------ claims
IsWrapper == cell.cls = "MyAttentionWrapper"
HasCell == cell.cls \in {"Cell", "MyAttentionWrapper"}
\* the Cell behind the caller's cell object
TheCell == IF IsWrapper THEN cell._cell ELSE cell
\* the Cell's part of the caller's state
TheCellState == IF IsWrapper THEN state.cell_state ELSE state
TheMask == CHOOSE m \in Masks(Cell_output_size(TheCell)) : TRUE

\* C1: the state zero_state / initialized_state return has time 0 and an
\* all-zero attention of width attention_size; every call returns a state
\* whose time is the input state's time plus 1; after n chained calls from
\* the initial state, time is n.
C1_StepIndex ==
    IsWrapper =>
        /\ (state # NoneObj /\ nsteps = 0) =>
              /\ state.time = 0
              /\ Len(state.attention.v) = cell._attention_size
              /\ \A i \in 1..Len(state.attention.v) : state.attention.v[i] = 0
        /\ state # NoneObj => state.time = nsteps
        /\ last # NoneObj => last.result.next_state.time = last.state.time + 1

C1_Witness ==
    /\ IsWrapper
    /\ state # NoneObj
    /\ nsteps >= 2
    /\ state.time = nsteps
    /\ last.state.time = nsteps - 1

\* The wrapped Cell's step on concat(inputs, state.attention), for the
\* arguments of the last call.
BaseStep ==
    Cell_call(cell._cell, Concat(last.inputs, last.state.attention),
              last.state.cell_state, TheMask)
\* The context vector the memory gives for a base output.
BaseContext(base_output) ==
    Context(Softmax(Score(cell._attention_mechanism,
                          Dense(6, base_output, cell._attention_size, TRUE))),
            cell._attention_mechanism.values)

\* C2: the output of a call is next_state.attention when output_attention
\* is set and the wrapped cell's output otherwise; either way
\* next_state.attention is the new attention value: the context without an
\* attention layer, else the bias-free projection of concat(base output,
\* context); the wrapped cell is stepped on concat(inputs, state.attention).
C2_OutputAttention ==
    (IsWrapper /\ last # NoneObj) =>
        Bind(BaseStep, LAMBDA base :
        Bind(BaseContext(base.output), LAMBDA context :
            /\ last.result.next_state.attention =
                  IF cell._attention_layer = NoneObj THEN context
                  ELSE Dense(7, Concat(base.output, context),
                             cell._attention_size, FALSE)
            /\ last.result.output =
                  IF cell._output_attention THEN last.result.next_state.attention
                  ELSE base.output
            /\ last.result.next_state.cell_state = base.new_state))

C2_Witness ==
    /\ IsWrapper
    /\ last # NoneObj
    /\ last.state.time >= 1
    /\ cell._output_attention
    /\ cell._attention_layer # NoneObj
    /\ last.result.output = last.result.next_state.attention
    /\ last.result.output # BaseStep.output
    /\ \E i \in 1..Len(last.state.attention.v) : last.state.attention.v[i] # 0

\* the shape of one layer's state, per base cell
LayerShapeOK(sh, c) ==
    IF HasLSTM(c._base_cell)
    THEN /\ sh.cls = "LSTMStateTuple"
         /\ sh.c = TensorShape(<<NoneInt, c._state_size>>)
         /\ sh.h = TensorShape(<<NoneInt, c._state_size>>)
    ELSE sh = TensorShape(<<NoneInt, c._state_size>>)
\* one layer's state, per base cell
LayerStateOK(st, c) ==
    IF HasLSTM(c._base_cell)
    THEN /\ st.cls = "LSTMStateTuple"
         /\ st.c.cls = "Tensor" /\ Len(st.c.v) = c._state_size
         /\ st.h.cls = "Tensor" /\ Len(st.h.v) = c._state_size
    ELSE st.cls = "Tensor" /\ Len(st.v) = c._state_size

\* C3, as stated: for every num_layers >= 1 the Cell's declared state shape
\* and its state are sequences of exactly num_layers per-layer entries.
C3_StateIsSequence ==
    HasCell =>
        /\ Cell_shape(TheCell).cls = "tuple"
        /\ Len(Cell_shape(TheCell).items) = TheCell._num_layers
        /\ \A i \in 1..TheCell._num_layers :
              LayerShapeOK(Cell_shape(TheCell).items[i], TheCell)
        /\ state # NoneObj =>
              /\ TheCellState.cls = "tuple"
              /\ Len(TheCellState.items) = TheCell._num_layers
              /\ \A i \in 1..TheCell._num_layers :
                    LayerStateOK(TheCellState.items[i], TheCell)

\* C3, amended: for num_layers >= 2 the declared state shape and the state
\* are sequences of exactly num_layers per-layer entries; for num_layers = 1
\* they are the single layer's entry itself, not a sequence of length 1.
C3_StateShape ==
    HasCell =>
        IF TheCell._num_layers = 1
        THEN /\ LayerShapeOK(Cell_shape(TheCell), TheCell)
             /\ state # NoneObj => LayerStateOK(TheCellState, TheCell)
        ELSE /\ Cell_shape(TheCell).cls = "tuple"
             /\ Len(Cell_shape(TheCell).items) = TheCell._num_layers
             /\ \A i \in 1..TheCell._num_layers :
                   LayerShapeOK(Cell_shape(TheCell).items[i], TheCell)
             /\ state # NoneObj =>
                   /\ TheCellState.cls = "tuple"
                   /\ Len(TheCellState.items) = TheCell._num_layers
                   /\ \A i \in 1..TheCell._num_layers :
                         LayerStateOK(TheCellState.items[i], TheCell)

C3_Witness ==
    /\ HasCell
    /\ TheCell._num_layers >= 2
    /\ HasLSTM(TheCell._base_cell)
    /\ TheCell._state_size >= 1
    /\ nsteps >= 1
    /\ TheCellState.cls = "tuple"
    /\ Len(TheCellState.items) = TheCell._num_layers

\* C4: no cell is returned for hidden_size = 0 or dropout_prob = 1.0:
\* construction raises instead.
C4_RejectsInvalidConfig ==
    HasCell => (TheCell._state_size > 0 /\ TheCell._dropout_prob < 10)

\* the Cell fields get_cell takes from the factory
BuiltFromFactory(c) ==
    /\ c.cls = "Cell"
    /\ c._state_size = rnn.state_size
    /\ c._num_layers = rnn.num_layers
    /\ c._dropout_prob = rnn.dropout_prob
    /\ c._base_cell = rnn.base_cell
\* get_cell was called, on a factory whose base_cell names a cell class
GotCell == cell # NoneObj /\ cell.cls # "_rnn.BasicRNNCell" /\ rnn.base_cell \in TFCellNames
AttnSupplied == "attn" \in DOMAIN kwargs /\ kwargs["attn"] # NoneObj
WrapsAsSupplied ==
    /\ IsWrapper
    /\ BuiltFromFactory(cell._cell)
    /\ cell._attention_mechanism = kwargs["attn"]
    /\ "attention_size" \in DOMAIN kwargs
    /\ kwargs["attention_size"] # NoneInt =>
          /\ cell._attention_size = kwargs["attention_size"]
          /\ cell._attention_layer # NoneObj
    /\ cell._output_attention =
          IF "output_attention" \in DOMAIN kwargs THEN kwargs["output_attention"]
          ELSE FALSE

\* C5, as stated: get_cell returns a plain Cell built from the factory's
\* fields when no attention mechanism is supplied, and a wrapper around that
\* Cell, with the supplied attention_size and flag, whenever one is supplied.
C5_GetCell ==
    GotCell => IF AttnSupplied THEN WrapsAsSupplied ELSE BuiltFromFactory(cell)

\* C5, amended: ... a wrapper whenever an attention mechanism and the
\* attention_size keyword are both supplied; with a mechanism but no
\* attention_size keyword get_cell raises KeyError and returns no cell.
\* get_cell never changes the factory's fields.
C5_GetCellAmended ==
    /\ [](GotCell =>
            IF ~AttnSupplied THEN BuiltFromFactory(cell)
            ELSE IF "attention_size" \in DOMAIN kwargs THEN WrapsAsSupplied
            ELSE cell = Raise("KeyError"))
    /\ [][rnn' = rnn]_vars

C5_Witness ==
    /\ GotCell
    /\ AttnSupplied
    /\ "output_attention" \notin DOMAIN kwargs
    /\ "attention_size" \in DOMAIN kwargs
    /\ IsWrapper
    /\ cell._output_attention = FALSE
    /\ cell._attention_size = kwargs["attention_size"]

\* C6: attention_size is the explicit attention layer size if one was
\* given, else the last dimension of the memory; in every state reached from
\* an initial state the attention component has that width; a call's output
\* has the declared output_size, which is attention_size when
\* output_attention is set and the wrapped cell's output size otherwise.
C6_AttentionWidth ==
    IsWrapper =>
        /\ cell._attention_size =
              IF kwargs["attention_size"] # NoneInt THEN kwargs["attention_size"]
              ELSE Len(kwargs["attn"].values[1])
        /\ state # NoneObj => Len(state.attention.v) = cell._attention_size
        /\ MyAttentionWrapper_output_size(cell) =
              IF cell._output_attention THEN cell._attention_size
              ELSE rnn.state_size
        /\ last # NoneObj =>
              /\ Len(last.result.next_state.attention.v) = cell._attention_size
              /\ Len(last.result.output.v) = MyAttentionWrapper_output_size(cell)

C6_Witness ==
    /\ IsWrapper
    /\ nsteps >= 2
    /\ cell._attention_layer # NoneObj
    /\ cell._attention_size # Len(cell._attention_mechanism.values[1])
    /\ Len(state.attention.v) = cell._attention_size

\* C7: for a BasicRNNCell with num_units > 0, a call returns an output and
\* a new state that are the same value, tanh(linear_map([inputs, state],
\* num_units, bias=True)).
C7_BasicCell ==
    (cell.cls = "_rnn.BasicRNNCell" /\ last # NoneObj /\ cell._num_units > 0) =>
        /\ ~IsError(last.result)
        /\ last.result.output = last.result.new_state
        /\ last.result.output.cls = "Tensor"
        /\ Len(last.result.output.v) = cell._num_units
        /\ Bind(linear_map(<<last.inputs, last.state>>, cell._num_units, TRUE),
                LAMBDA lin : \A i \in 1..cell._num_units :
                                last.result.output.v[i] = Tanh(lin.v[i]))
        /\ state = last.result.new_state

C7_Witness ==
    /\ cell.cls = "_rnn.BasicRNNCell"
    /\ cell._num_units >= 2
    /\ nsteps >= 2
    /\ last.result.output = last.result.new_state
    /\ \E i \in 1..cell._num_units : last.result.output.v[i] # 0

\* C8: a call leaves the cell object (its configuration, its wrapped cell
\* and the memory of its attention mechanism) as it was and returns a new
\* state beside the one it was given; calls with equal inputs and state
\* return equal outputs and next states, whatever was called in between.
C8_Pure ==
    /\ [](\A a \in log : \A b \in log :
            (a.inputs = b.inputs /\ a.state = b.state) =>
                /\ a.result.output = b.result.output
                /\ a.result.next_state = b.result.next_state)
    /\ [][(IsWrapper /\ state # NoneObj) => cell' = cell]_vars
    /\ [][(IsWrapper /\ nsteps' = nsteps + 1) =>
             (last'.state = state /\ state' = last'.result.next_state)]_vars

C8_Witness ==
    /\ IsWrapper
    /\ nsteps >= 2
    /\ last # NoneObj
    /\ last.state.time = 0
    /\ state.time = nsteps
    /\ \E a \in log : a.state.time >= 1

\* C9: a Cell call returns the wrapped cell's new state as it is, and the
\* wrapped cell's output as it is whenever dropout_prob = 0 or the dropout op
\* runs in inference mode; the call never sets the op's training argument,
\* so every call runs in inference mode, for every dropout_prob.
C9_Dropout ==
    (cell.cls = "Cell" /\ last # NoneObj) =>
        Bind(TFCell_call(cell._cell, last.inputs, last.state), LAMBDA raw :
            /\ last.result.new_state = raw.new_state
            /\ last.result.output = raw.output
            /\ state = last.result.new_state)

C9_Witness ==
    /\ cell.cls = "Cell"
    /\ last # NoneObj
    /\ cell._dropout_prob = 5
    /\ cell._num_layers >= 2
    /\ \E i \in 1..Len(last.result.output.v) : last.result.output.v[i] # 0
    /\ last.result.output = TFCell_call(cell._cell, last.inputs, last.state).output

\* C10: the cell_state of the wrapper's declared shape is the wrapped
\* Cell's declared shape, for every base cell and num_layers.
C10_ShapesAgree ==
    IsWrapper => MyAttentionWrapper_shape(cell).cell_state = Cell_shape(cell._cell)

====
